---- MODULE Spec2Model ----
(***************************************************************************)
(* Intel-family calling conventions of qiling (qiling/cc/intel.py):        *)
(* amd64, ms64, macosx64, cdecl and stdcall over one emulated register     *)
(* file and one emulated little-endian stack.                              *)
(*                                                                         *)
(* Python integers are modelled as little-endian byte sequences of         *)
(* ValueBytes bytes (a 64-bit quantity does not fit a TLC integer), so     *)
(* masking, shifting and or-ing are computed byte by byte.  The stack      *)
(* pointer is a byte address into the mapped stack region.                 *)
(***************************************************************************)
EXTENDS Integers, Sequences, FiniteSets, TLC

VARIABLES
    cc,         \* the concrete convention the emulator selected
    argregs,    \* the convention's _argregs attribute
    sp,         \* arch.regs.arch_sp, a byte address
    mem,        \* emulated memory of the mapped stack region, byte per address
    regs,       \* emulated argument registers
    last,       \* the last operation invoked, with its arguments and result
    pending,    \* history: return addresses set and not yet unwound
    underflow,  \* history: some unwind happened with no pending return address
    sp0         \* history: the stack pointer at start

vars == <<cc, argregs, sp, mem, regs, last, pending, underflow, sp0>>

(***************************************************************************)
(* Bounds of the model.                                                    *)
(***************************************************************************)
ValueBytes == 12     \* bytes kept of a Python integer
StackWords == 5      \* mapped stack region, in words of the architecture
MaxNSlots == 3       \* unwind is called with nslots in 0..MaxNSlots
MaxSlot == 6         \* getRawParam is called with slot in 0..MaxSlot
MaxBits == 129       \* getNumSlots is called with argbits in 1..MaxBits

Conventions == {"amd64", "ms64", "macosx64", "cdecl", "stdcall"}
Seeds == {0, 1}
AddrSeeds == {1, 15}
Widths == {0, 8, 16, 32, 64}

Max(a, b) == IF a >= b THEN a ELSE b

\* initial stack pointer, in words from the region's base: the words above it
\* hold the stack arguments of the call being emulated
InitSpWord == StackWords - MaxNSlots

(***************************************************************************)
(* Python integers as little-endian byte sequences.                        *)
(***************************************************************************)
Zero == [i \in 1..ValueBytes |-> 0]

RECURSIVE BitOr(_, _)
BitOr(a, b) ==
    IF a = 0 THEN b
    ELSE IF b = 0 THEN a
    ELSE Max(a % 2, b % 2) + 2 * BitOr(a \div 2, b \div 2)

\* x | y
Or(x, y) == [i \in 1..ValueBytes |-> BitOr(x[i], y[i])]

\* x << nbits, for nbits a multiple of 8
Shl(x, nbits) ==
    [i \in 1..ValueBytes |-> IF i > nbits \div 8 THEN x[i - nbits \div 8] ELSE 0]

\* x & ((1 << nbits) - 1), for nbits a multiple of 8
Mask(x, nbits) == [i \in 1..ValueBytes |-> IF i * 8 <= nbits THEN x[i] ELSE 0]

\* the value fits in nbytes bytes
Fits(x, nbytes) == \A i \in 1..ValueBytes : i > nbytes => x[i] = 0

(***************************************************************************)
(* The class chain: QlIntel64 for amd64, ms64, macosx64; QlIntel32 for     *)
(* cdecl, stdcall.                                                         *)
(***************************************************************************)
Is32(c) == c \in {"cdecl", "stdcall"}

archbits(c) == IF Is32(c) THEN 32 ELSE 64

\* self._asize: the native address size in bytes
asize(c) == archbits(c) \div 8

ms64_shadow == 4

shadow(c) == IF c = "ms64" THEN ms64_shadow ELSE 0

make_arg_list(rs) == rs

amd64_argregs_short == make_arg_list(<<"RDI", "RSI", "RDX", "R10", "R8">>)

amd64_argregs == make_arg_list(<<"RDI", "RSI", "RDX", "R10", "R8", "R9">>)

ms64_argregs == make_arg_list(<<"RCX", "RDX", "R8", "R9">>)

macosx64_argregs == make_arg_list(<<"RDI", "RSI", "RDX", "RCX", "R8", "R9">>)

cdecl_argregs == make_arg_list(<<>>)

stdcall_argregs == make_arg_list(<<>>)

ArgRegsOf(c) ==
    CASE c = "amd64" -> amd64_argregs
      [] c = "ms64" -> ms64_argregs
      [] c = "macosx64" -> macosx64_argregs
      [] c = "cdecl" -> cdecl_argregs
      [] c = "stdcall" -> stdcall_argregs

RegNames == {"RDI", "RSI", "RDX", "R10", "R8", "R9", "RCX"}

(***************************************************************************)
(* The execution context: stack memory and the stack pointer.              *)
(***************************************************************************)
MemSize(c) == StackWords * asize(c)

\* mem.read_ptr(a): n bytes at a, little-endian
ReadPtr(m, a, n) == [i \in 1..ValueBytes |-> IF i <= n THEN m[a + i - 1] ELSE 0]

\* mem.write_ptr(a, v): the n low bytes of v at a, little-endian
WritePtr(m, a, n, v) ==
    [x \in DOMAIN m |-> IF a <= x /\ x < a + n THEN v[x - a + 1] ELSE m[x]]

\* arch.stack_push(value): st is the pair of stack pointer and memory
stack_push(st, n, value) ==
    [sp |-> st.sp - n, mem |-> WritePtr(st.mem, st.sp - n, n, value)]

\* arch.stack_pop()
stack_pop(st, n) ==
    [sp |-> st.sp + n, mem |-> st.mem, ret |-> ReadPtr(st.mem, st.sp, n)]

(***************************************************************************)
(* The generic slot accessor of the common base class: slots below the     *)
(* length of the register list are registers, the others are stack words   *)
(* above the stack pointer, offset by the shadow space.  A width of 0      *)
(* stands for the native width.  s is the emulated state.                  *)
(***************************************************************************)
SlotAddr(s, slot) == s.sp + (shadow(s.cc) + slot - Len(s.argregs)) * asize(s.cc)

SlotMapped(s, slot) ==
    \/ slot < Len(s.argregs)
    \/ SlotAddr(s, slot) + asize(s.cc) <= MemSize(s.cc)

QlCommonBaseCC_getRawParam(s, slot, nbits) ==
    LET bits == IF nbits = 0 THEN archbits(s.cc) ELSE nbits
        raw == IF slot < Len(s.argregs)
               THEN s.regs[s.argregs[slot + 1]]
               ELSE ReadPtr(s.mem, SlotAddr(s, slot), asize(s.cc))
    IN  Mask(raw, bits)

(***************************************************************************)
(* QlIntelBaseCC                                                           *)
(***************************************************************************)
\* variant: stores the address before moving the stack pointer
setReturnAddress_postdec(s, addr) ==
    [sp |-> s.sp - asize(s.cc),
     mem |-> WritePtr(s.mem, s.sp, asize(s.cc), addr)]

\* variant: always stores a 4-byte address
setReturnAddress_dword(s, addr) ==
    [sp |-> s.sp - asize(s.cc),
     mem |-> WritePtr(s.mem, s.sp - asize(s.cc), 4, addr)]

QlIntelBaseCC_setReturnAddress(s, addr) == stack_push(s, asize(s.cc), addr)

\* variant: reads the return address and leaves it on the stack
unwind_peek(s, nslots) ==
    [sp |-> s.sp, mem |-> s.mem, ret |-> ReadPtr(s.mem, s.sp, asize(s.cc))]

\* variant: the base removes the arguments too
unwind_cleanup(s, nslots) ==
    [stack_pop(s, asize(s.cc)) EXCEPT !.sp = @ + nslots * asize(s.cc)]

QlIntelBaseCC_unwind(s, nslots) == stack_pop(s, asize(s.cc))

(***************************************************************************)
(* QlIntel64 and QlIntel32                                                 *)
(***************************************************************************)
QlIntel64_getNumSlots(argbits) == Max(argbits, 64) \div 64

QlIntel32_getNumSlots(argbits) == Max(argbits, 32) \div 32

\* variant: the high word is taken from the lower slot
getRawParam_swapped(s, slot, nbits) ==
    IF nbits = 64
    THEN LET lo == QlCommonBaseCC_getRawParam(s, slot + 1, 0)
             hi == QlCommonBaseCC_getRawParam(s, slot, 0)
         IN  Or(Shl(hi, 32), lo)
    ELSE QlCommonBaseCC_getRawParam(s, slot, nbits)

QlIntel32_getRawParam(s, slot, nbits) ==
    IF nbits = 64
    THEN LET lo == QlCommonBaseCC_getRawParam(s, slot, 0)
             hi == QlCommonBaseCC_getRawParam(s, slot + 1, 0)
         IN  Or(Shl(hi, 32), lo)
    ELSE QlCommonBaseCC_getRawParam(s, slot, nbits)

(***************************************************************************)
(* stdcall                                                                 *)
(***************************************************************************)
\* variant: no cleanup by the callee
stdcall_unwind_nocleanup(s, nslots) == QlIntelBaseCC_unwind(s, nslots)

\* variant: the popped return address is not handed back
stdcall_unwind_noreturn(s, nslots) ==
    LET r == QlIntelBaseCC_unwind(s, nslots)
    IN  [r EXCEPT !.sp = @ + nslots * asize(s.cc), !.ret = Zero]

\* variant: the slot count is not scaled by the slot size
stdcall_unwind_unscaled(s, nslots) ==
    [QlIntelBaseCC_unwind(s, nslots) EXCEPT !.sp = @ + nslots]

stdcall_unwind(s, nslots) ==
    LET r == QlIntelBaseCC_unwind(s, nslots)
    IN  [r EXCEPT !.sp = @ + nslots * asize(s.cc)]

(***************************************************************************)
(* Method resolution of the five concrete conventions.                     *)
(***************************************************************************)
setReturnAddress(s, addr) == QlIntelBaseCC_setReturnAddress(s, addr)

unwind(s, nslots) ==
    IF s.cc = "stdcall" THEN stdcall_unwind(s, nslots)
    ELSE QlIntelBaseCC_unwind(s, nslots)

getNumSlots(c, argbits) ==
    IF Is32(c) THEN QlIntel32_getNumSlots(argbits)
    ELSE QlIntel64_getNumSlots(argbits)

getRawParam(s, slot, nbits) ==
    IF Is32(s.cc) THEN QlIntel32_getRawParam(s, slot, nbits)
    ELSE QlCommonBaseCC_getRawParam(s, slot, nbits)

\* every slot the call reads is a register or lies in mapped memory
ParamMapped(s, slot, nbits) ==
    /\ SlotMapped(s, slot)
    /\ (Is32(s.cc) /\ nbits = 64) => SlotMapped(s, slot + 1)

(***************************************************************************)
(* Initial contents and inputs.                                            *)
(***************************************************************************)
RegIndex(r) ==
    CASE r = "RDI" -> 1 [] r = "RSI" -> 2 [] r = "RDX" -> 3 [] r = "R10" -> 4
      [] r = "R8" -> 5 [] r = "R9" -> 6 [] r = "RCX" -> 7

InitByte(seed, a) == ((a + 1) * 29 + seed * 113) % 256

InitReg(seed, r) ==
    [i \in 1..ValueBytes |->
        IF i <= 8 THEN (RegIndex(r) * 32 + i + seed * 7) % 256 ELSE 0]

\* an address that fits in one word of convention c
AddrOf(c, k) ==
    [i \in 1..ValueBytes |-> IF i <= asize(c) THEN (k * 16 + i) % 256 ELSE 0]

Addrs(c) == {AddrOf(c, k) : k \in AddrSeeds}

St == [cc |-> cc, argregs |-> argregs, regs |-> regs, sp |-> sp, mem |-> mem]

NoOp ==
    [op |-> "none", arg |-> 0, nbits |-> 0, addr |-> Zero, ret |-> Zero,
     num |-> 0, spBefore |-> 0, afterPush |-> FALSE, pushAddr |-> Zero,
     pushSp |-> 0, expect |-> Zero]

Init ==
    \E c \in Conventions, seed \in Seeds :
        /\ cc = c
        /\ argregs = ArgRegsOf(c)
        /\ sp = InitSpWord * asize(c)
        /\ sp0 = InitSpWord * asize(c)
        /\ mem = [a \in 0..(MemSize(c) - 1) |-> InitByte(seed, a)]
        /\ regs = [r \in RegNames |-> InitReg(seed, r)]
        /\ last = NoOp
        /\ pending = <<>>
        /\ underflow = FALSE

\* the history of pending return addresses is kept for the caller-cleanup
\* conventions, until an unwind finds none pending
Tracked == cc # "stdcall" /\ ~underflow

(***************************************************************************)
(* One action per operation of a convention.                               *)
(***************************************************************************)
SetReturnAddress(addr) ==
    /\ sp - asize(cc) >= 0
    /\ LET r == setReturnAddress(St, addr)
       IN  /\ sp' = r.sp
           /\ mem' = r.mem
    /\ last' = [NoOp EXCEPT !.op = "setReturnAddress", !.addr = addr,
                            !.spBefore = sp]
    /\ pending' = IF Tracked THEN Append(pending, addr) ELSE pending
    /\ UNCHANGED <<cc, argregs, regs, underflow, sp0>>

Unwind(nslots) ==
    /\ sp + asize(cc) <= MemSize(cc)
    /\ LET r == unwind(St, nslots)
       IN  /\ r.sp <= MemSize(cc)
           /\ sp' = r.sp
           /\ mem' = r.mem
           /\ last' = [NoOp EXCEPT
                         !.op = "unwind", !.arg = nslots, !.ret = r.ret,
                         !.spBefore = sp,
                         !.afterPush = (last.op = "setReturnAddress"),
                         !.pushAddr = last.addr,
                         !.pushSp = last.spBefore,
                         !.expect = IF pending = <<>> THEN Zero
                                    ELSE pending[Len(pending)]]
    /\ pending' = IF pending = <<>> THEN pending
                  ELSE SubSeq(pending, 1, Len(pending) - 1)
    /\ underflow' = (underflow \/ (cc # "stdcall" /\ pending = <<>>))
    /\ UNCHANGED <<cc, argregs, regs, sp0>>

GetRawParam(slot, nbits) ==
    /\ ParamMapped(St, slot, nbits)
    /\ last' = [NoOp EXCEPT !.op = "getRawParam", !.arg = slot,
                            !.nbits = nbits,
                            !.ret = getRawParam(St, slot, nbits)]
    /\ UNCHANGED <<cc, argregs, sp, mem, regs, pending, underflow, sp0>>

GetNumSlots(argbits) ==
    /\ last' = [NoOp EXCEPT !.op = "getNumSlots", !.arg = argbits,
                            !.num = getNumSlots(cc, argbits)]
    /\ UNCHANGED <<cc, argregs, sp, mem, regs, pending, underflow, sp0>>

(***************************************************************************)
(* Specifications.  Spec: calls are synthesized and completed.  SpecRead:  *)
(* calls are synthesized and their arguments read.  SpecSlots: the slot    *)
(* arithmetic alone, over every requested width.                           *)
(***************************************************************************)
Next ==
    \/ \E addr \in Addrs(cc) : SetReturnAddress(addr)
    \/ \E nslots \in 0..MaxNSlots : Unwind(nslots)

Spec == Init /\ [][Next]_vars

NextRead ==
    \/ \E addr \in Addrs(cc) : SetReturnAddress(addr)
    \/ \E slot \in 0..MaxSlot, nbits \in Widths : GetRawParam(slot, nbits)

SpecRead == Init /\ [][NextRead]_vars

NextSlots == \E argbits \in 1..MaxBits : GetNumSlots(argbits)

SpecSlots == Init /\ [][NextSlots]_vars

(***************************************************************************)
(* Properties.                                                             *)
(***************************************************************************)
\* the last operation was an unwind directly after a setReturnAddress
UnwindAfterSet == last.op = "unwind" /\ last.afterPush

\* C1: in every convention, setReturnAddress(A) directly followed by
\* unwind(nslots) makes unwind return exactly A, for every nslots.
C1_UnwindReturnsSetAddress ==
    UnwindAfterSet => (Fits(last.pushAddr, asize(cc)) /\ last.ret = last.pushAddr)

C1_Witness ==
    /\ UnwindAfterSet
    /\ cc = "stdcall"
    /\ last.arg = MaxNSlots
    /\ last.ret = AddrOf(cc, 15)

\* C2 as stated: in a caller-cleanup convention, after setReturnAddress(A)
\* then unwind(0) the stack pointer is one word size above its value before
\* setReturnAddress.
C2_OneWordHigher ==
    (UnwindAfterSet /\ cc # "stdcall" /\ last.arg = 0)
        => sp = last.pushSp + asize(cc)

\* C2 amended: in a caller-cleanup convention, after setReturnAddress(A) then
\* unwind(0) the stack pointer equals its value before setReturnAddress (one
\* word size above its value between the two calls).
C2_BackWhereItWas ==
    (UnwindAfterSet /\ cc # "stdcall" /\ last.arg = 0)
        => (sp = last.pushSp /\ sp = last.spBefore + asize(cc))

C2_Witness ==
    /\ UnwindAfterSet
    /\ cc = "amd64"
    /\ last.arg = 0
    /\ sp = last.pushSp
    /\ last.spBefore = last.pushSp - 8

\* C3 as stated: for stdcall with 4-byte words, setReturnAddress(A) then
\* unwind(nslots) leaves the stack pointer 4 + nslots*4 bytes above its value
\* before setReturnAddress (16 bytes for nslots = 3).
C3_AboveBeforeSet ==
    (UnwindAfterSet /\ cc = "stdcall" /\ asize(cc) = 4)
        => sp = last.pushSp + 4 + last.arg * 4

\* C3 amended: for stdcall with 4-byte words, setReturnAddress(A) then
\* unwind(nslots) leaves the stack pointer nslots*4 bytes above its value
\* before setReturnAddress (12 bytes for nslots = 3), which is 4 + nslots*4
\* bytes (16 for nslots = 3) above its value between the two calls.
C3_AboveBeforeUnwind ==
    (UnwindAfterSet /\ cc = "stdcall" /\ asize(cc) = 4)
        => /\ sp = last.pushSp + last.arg * 4
           /\ sp = last.spBefore + 4 + last.arg * 4

C3_Witness ==
    /\ UnwindAfterSet
    /\ cc = "stdcall"
    /\ last.arg = 3
    /\ sp = last.pushSp + 12
    /\ sp = last.spBefore + 16

\* C4: for every convention and every width w >= 1, getNumSlots(w) = 1 when
\* w <= wordsize and getNumSlots(w) = 2 when wordsize < w <= 2*wordsize.
C4_SlotsNeeded ==
    last.op = "getNumSlots" =>
        LET w == last.arg
            wordsize == archbits(cc)
        IN  /\ w <= wordsize => last.num = 1
            /\ (wordsize < w /\ w <= 2 * wordsize) => last.num = 2

\* C5: for cdecl and stdcall, getRawParam(s, 64) is
\* (getRawParam(s+1, 32) << 32) | getRawParam(s, 32), at every slot whose two
\* words are mapped; for any other width getRawParam is the base accessor's
\* result at that slot and width.
C5_SplitRead ==
    Is32(cc) =>
        /\ \A s \in 0..MaxSlot :
              ParamMapped(St, s, 64) =>
                  getRawParam(St, s, 64)
                      = Or(Shl(getRawParam(St, s + 1, 32), 32),
                           getRawParam(St, s, 32))
        /\ (last.op = "getRawParam" /\ last.nbits = 64) =>
              last.ret = Or(Shl(getRawParam(St, last.arg + 1, 32), 32),
                            getRawParam(St, last.arg, 32))
        /\ (last.op = "getRawParam" /\ last.nbits # 64) =>
              last.ret = QlCommonBaseCC_getRawParam(St, last.arg, last.nbits)

C5_Witness ==
    /\ cc = "cdecl"
    /\ last.op = "getRawParam"
    /\ last.nbits = 64
    /\ last.arg = 0
    /\ sp < sp0
    /\ Mask(last.ret, 32) = AddrOf(cc, 15)
    /\ Mask(last.ret, 32) # last.ret
    /\ Fits(last.ret, 8)

\* C6: the argument-register list has 4 registers for ms64, 6 for amd64 and
\* macosx64, none for cdecl and stdcall, whatever operations have run.
C6_ArgRegsLength ==
    /\ cc = "ms64" => Len(argregs) = 4
    /\ cc \in {"amd64", "macosx64"} => Len(argregs) = 6
    /\ cc \in {"cdecl", "stdcall"} => Len(argregs) = 0

C6_Witness ==
    /\ cc = "amd64"
    /\ last.op = "unwind"
    /\ Len(pending) = 1
    /\ Len(argregs) = 6

\* C7: stdcall.unwind(nslots) returns the word at the stack top as it was
\* when unwind was called and leaves the stack pointer (1 + nslots) stack
\* slots above its value before unwind.
C7_StdcallUnwind ==
    [][(cc = "stdcall" /\ last'.op = "unwind") =>
          /\ sp' = sp + (1 + last'.arg) * asize(cc)
          /\ last'.ret = ReadPtr(mem, sp, asize(cc))]_vars

C7_Witness ==
    /\ cc = "stdcall"
    /\ last.op = "unwind"
    /\ last.arg = 2
    /\ ~last.afterPush
    /\ sp = last.spBefore + 12

\* C8: setReturnAddress(addr) lowers the stack pointer by one word size,
\* stores addr at the new stack top, and leaves every other byte of memory
\* and every argument register as it was.
C8_SetReturnAddressFrame ==
    [][last'.op = "setReturnAddress" =>
          /\ sp' = sp - asize(cc)
          /\ ReadPtr(mem', sp', asize(cc)) = last'.addr
          /\ DOMAIN mem' = DOMAIN mem
          /\ \A a \in DOMAIN mem : (a < sp' \/ a >= sp) => mem'[a] = mem[a]
          /\ regs' = regs
          /\ argregs' = argregs]_vars

C8_Witness ==
    /\ cc = "ms64"
    /\ last.op = "setReturnAddress"
    /\ sp = sp0 - 16
    /\ ReadPtr(mem, sp, 8) = AddrOf(cc, 1)
    /\ ReadPtr(mem, sp + 8, 8) = AddrOf(cc, 15)

\* C9: for amd64, ms64, macosx64 and cdecl, unwind(nslots) returns the word
\* at the stack top and raises the stack pointer by one word size whatever
\* nslots is; no unwind writes memory.
C9_BaseUnwind ==
    [][last'.op = "unwind" =>
          /\ mem' = mem
          /\ cc # "stdcall" =>
                /\ sp' = sp + asize(cc)
                /\ last'.ret = ReadPtr(mem, sp, asize(cc))
                /\ \A n \in 0..MaxNSlots : unwind(St, n) = unwind(St, 0)]_vars

C9_Witness ==
    /\ cc = "ms64"
    /\ last.op = "unwind"
    /\ last.arg = MaxNSlots
    /\ sp = last.spBefore + 8

\* C10: in a caller-cleanup convention, while no unwind has run without a
\* pending return address, each unwind returns the most recently set address
\* not yet unwound, and the stack pointer is its initial value minus one word
\* size per pending return address.
C10_NestedCalls ==
    (cc # "stdcall" /\ ~underflow) =>
        /\ sp = sp0 - asize(cc) * Len(pending)
        /\ pending = <<>> => sp = sp0
        /\ last.op = "unwind" => last.ret = last.expect

C10_Witness ==
    /\ cc = "macosx64"
    /\ ~underflow
    /\ last.op = "unwind"
    /\ ~last.afterPush
    /\ pending = <<>>
    /\ last.ret = AddrOf(cc, 1)
    /\ ReadPtr(mem, sp - 16, 8) = AddrOf(cc, 15)

====
